---- MODULE Spec2Model ----
(***************************************************************************)
(* Scheduling model of smolagents-crew.                                    *)
(*                                                                         *)
(*   SpecCrew   Crew.execute (core.py): batches of ready tasks, one worker *)
(*              thread per task of a batch, joined before the next batch.  *)
(*   SpecSwarm  SwarmCrew.execute / SwarmManager.execute_tasks             *)
(*              (swarm/crew.py, swarm/manager.py, swarm/node.py): the      *)
(*              sequential queue loop that hands the head task to a node.  *)
(*   SpecUnit   one direct call of Task.is_ready, Task.execute (core.py)   *)
(*              or SwarmNode.execute_task (swarm/node.py) on any context.  *)
(*   SpecManager  register_node, unregister_node and get_available_node    *)
(*              of a SwarmManager (swarm/manager.py), in any sequence.     *)
(*   SpecServer one call handled by SwarmNodeServicer (swarm/server.py) or *)
(*              made through SwarmNodeClient (swarm/client.py).            *)
(*   SpecBuilder  add_agent, add_task, add_shared_context and build of a   *)
(*              CrewBuilder (builder.py), in any sequence.                 *)
(*   SpecValidate one call of validate_crew or add_task_chain on any       *)
(*              AdvancedCrewBuilder (builder.py).                          *)
(*   SpecVerifier  RemoteVerifier.force_remote_execution                   *)
(*              (swarm/diagnostics.py) on a SwarmCrew before its run.      *)
(*   SpecStats  one call of CrewEvaluator.get_parallel_execution_stats     *)
(*              (utils/evaluation.py) on any recorded statistics.          *)
(*                                                                         *)
(* A prompt template is modelled by the sequence of its placeholders (what *)
(* Task._extract_template_vars returns); a rendered prompt is the sequence *)
(* of the context values substituted for them.                             *)
(***************************************************************************)
EXTENDS Integers, Sequences, FiniteSets, TLC

VARIABLES
  tasks,            \* Crew.tasks: the declared Task objects, in declaration order
  agents,           \* Crew.agents: names of the agents of the crew
  initial_context,  \* the initial_context argument of Crew.__init__
  context,          \* Crew.context
  remaining_tasks,  \* Crew.execute: remaining_tasks (indices into tasks)
  runner,           \* position of the worker thread of each task (_task_runner)
  completed_tasks,  \* Crew.completed_tasks
  cpc,              \* position of Crew.execute
  task_result,      \* Task._result of each task
  task_completed,   \* Task._completed of each task
  lock,             \* Crew.lock: the task whose worker thread holds it, 0 when free
  evaluator,        \* Crew.evaluator: None, or the CrewEvaluator of the run
  nodes,            \* SwarmManager.nodes, in registration (dict insertion) order
  task_queue,       \* SwarmManager.task_queue (indices into tasks)
  task_results,     \* SwarmManager.task_results
  mpc,              \* position of SwarmCrew.execute / SwarmManager.execute_tasks
  dispatch,         \* the node.execute_task call in progress: node, task, context
  error,            \* the RuntimeError raised by execute_tasks
  rotations,        \* observer: rotations of the queue since the last dispatch
  writes,           \* observer: number of writes of each key of the result context
  log,              \* observer: the agent calls of the run, in order
  call,             \* a call made on one object directly: operation, argument, outcome
  grpc_calls,       \* debug._grpc_calls: the recorded history of the transport
  debug_server,     \* the gRPC server was created by create_debug_server
  registered,       \* observer: node ids, by the time their node was registered
  admitted,         \* observer: node ids, by the time the id entered the registry
  builder,          \* a CrewBuilder: agents, tasks, shared_context
  added             \* observer: what the add calls on the builder have supplied

vars == <<tasks, agents, initial_context, context, remaining_tasks, runner,
          completed_tasks, cpc, task_result, task_completed, lock, evaluator, nodes,
          task_queue,
          task_results, mpc, dispatch, error, rotations, writes, log, call,
          grpc_calls, debug_server, registered, admitted, builder, added>>

crewVars == <<context, remaining_tasks, runner, completed_tasks, cpc,
              task_result, task_completed, lock, evaluator>>

swarmVars == <<nodes, task_queue, task_results, mpc, dispatch, error, rotations>>

configVars == <<tasks, agents, initial_context>>

registryVars == <<registered, admitted>>

transportVars == <<grpc_calls, debug_server>>

builderVars == <<builder, added>>

sideVars == <<call, transportVars, registryVars, builderVars>>

-----------------------------------------------------------------------------
(* Bounds *)

MaxTasks == 3

\* the latest reading of the clock among the statistics handed to
\* get_parallel_execution_stats
MaxTime == 3

-----------------------------------------------------------------------------
(* Values and declarations *)

\* Python's None, as a result key and as a Task._result
NoKey == "None"

NoneVal == [kind |-> "none", by |-> "none", idx |-> 0]

\* the value the caller supplied for key k of the initial context
InitVal(k) == [kind |-> "init", by |-> k, idx |-> 0]

\* what the agent of the i-th task of the list returns (Agent.run)
RunResult(name, i) == [kind |-> "result", by |-> name, idx |-> i]

TaskDependency(s, k) == [source_task |-> s, result_key |-> k]

Task(n, a, p, d, r) ==
  [name |-> n, agent |-> a, required_vars |-> p, dependencies |-> d, result_key |-> r]

EmptyMap == [k \in {} |-> NoneVal]

\* d[k] = v on a dict
Put(d, k, v) == [x \in (DOMAIN d) \cup {k} |-> IF x = k THEN v ELSE d[x]]

\* d.update(e)
Update(d, e) == [x \in (DOMAIN d) \cup (DOMAIN e) |-> IF x \in DOMAIN e THEN e[x] ELSE d[x]]

Range(s) == {s[i] : i \in DOMAIN s}

\* the sequences without repetition of at most n elements of S
RECURSIVE InjSeqs(_, _)
InjSeqs(S, n) ==
  IF n = 0 THEN {<<>>}
  ELSE LET shorter == InjSeqs(S, n - 1)
       IN  shorter \cup
           UNION {{Append(s, e) : e \in S \ Range(s)} : s \in {q \in shorter : Len(q) = n - 1}}

-----------------------------------------------------------------------------
(* The crews the model runs: task lists, initial contexts, agents *)

AgentNames == {"Lw", "Rw"}

\* The declarations a task list is drawn from: a root task, a chain, a fan-in,
\* a dependency on a task that is not in the list, a cycle (with the chain
\* task), a dependency declared under another key than its source publishes,
\* result keys that collide, a placeholder nobody supplies, no result key.
TaskPool ==
  { Task("A", "Lw", <<"x">>, <<>>, "a"),
    Task("B", "Lw", <<"a">>, <<TaskDependency("A", "a")>>, "b"),
    Task("C", "Rw", <<"a", "b">>,
         <<TaskDependency("A", "a"), TaskDependency("B", "b")>>, "c"),
    Task("C", "Lw", <<>>, <<TaskDependency("Z", "z")>>, NoKey),
    Task("A", "Lw", <<"b">>, <<TaskDependency("B", "b")>>, "a"),
    Task("B", "Rw", <<"k">>, <<TaskDependency("A", "k")>>, "a"),
    Task("C", "Lw", <<"x", "y">>, <<>>, "c"),
    Task("B", "Lw", <<>>, <<>>, "x") }

\* task lists: at most MaxTasks distinct Task objects, in any order
TaskLists == InjSeqs(TaskPool, MaxTasks)

\* initial contexts: empty, the usual one, one that already holds a result
\* key, one that holds a key spelled like a task name
InitialContexts ==
  { EmptyMap,
    [k \in {"x"} |-> InitVal(k)],
    [k \in {"x", "a"} |-> InitVal(k)],
    [k \in {"x", "A"} |-> InitVal(k)] }

TaskIds == DOMAIN tasks

TaskNames == {tasks[i].name : i \in TaskIds}

-----------------------------------------------------------------------------
(* Task (core.py) *)

\* Task.is_ready
is_ready(task, ctx) ==
  LET dependencies_ready ==
        \A j \in DOMAIN task.dependencies :
          /\ task.dependencies[j].result_key \in DOMAIN ctx
          /\ ctx[task.dependencies[j].result_key] # NoneVal
      vars_ready ==
        \A j \in DOMAIN task.required_vars : task.required_vars[j] \in DOMAIN ctx
  IN  dependencies_ready /\ vars_ready

\* prompt_template.format(**ctx), defined when every placeholder is a key of ctx
Render(task, ctx) == [j \in DOMAIN task.required_vars |-> ctx[task.required_vars[j]]]

\* observer: an entry of the log
Event(ev, i, prompt, msg) == [ev |-> ev, task |-> i, prompt |-> prompt, msg |-> msg]

\* observer: one more write of key k
Wrote(k) == [writes EXCEPT ![k] = @ + 1]

ContextKeys == {"x", "y", "a", "b", "c", "k", "z", "A", "B", "C"}

-----------------------------------------------------------------------------
(* CrewEvaluator (utils/evaluation.py) *)

\* a time not recorded (None); the readings of datetime.now() are 1, 2, ...
NoTime == 0

TaskExecutionStats(task_name, start_time, end_time, dependencies, agent_name) ==
  [task_name |-> task_name, start_time |-> start_time, end_time |-> end_time,
   dependencies |-> dependencies, agent_name |-> agent_name]

\* CrewEvaluator.__init__; readings counts the readings of the clock so far
CrewEvaluator ==
  [task_stats |-> EmptyMap, start_time |-> NoTime, end_time |-> NoTime, readings |-> 0]

\* datetime.now() inside the evaluator ev: every reading is later than the
\* ones before it
Now(ev) == ev.readings + 1

\* CrewEvaluator.start_evaluation
start_evaluation(ev) == [ev EXCEPT !.start_time = Now(ev), !.readings = @ + 1]

\* CrewEvaluator.end_evaluation
end_evaluation(ev) == [ev EXCEPT !.end_time = Now(ev), !.readings = @ + 1]

\* CrewEvaluator.record_task_start
record_task_start(ev, task_name, agent_name, dependencies) ==
  [ev EXCEPT !.task_stats = Put(@, task_name,
                                TaskExecutionStats(task_name, Now(ev), NoTime,
                                                   dependencies, agent_name)),
             !.readings = @ + 1]

\* CrewEvaluator.record_task_end
record_task_end(ev, task_name) ==
  IF task_name \in DOMAIN ev.task_stats
    THEN [ev EXCEPT !.task_stats[task_name].end_time = Now(ev), !.readings = @ + 1]
    ELSE ev

\* the test of get_parallel_execution_stats on two entries of task_stats
Parallel(stats, other_stats) ==
  \/ stats.start_time <= other_stats.start_time /\ other_stats.start_time <= stats.end_time
  \/ stats.start_time <= other_stats.end_time /\ other_stats.end_time <= stats.end_time

\* what get_parallel_execution_stats appends to parallel_groups[task_name]
ParallelGroup(task_stats, task_name) ==
  IF task_stats[task_name].end_time = NoTime THEN {}
  ELSE {other_name \in DOMAIN task_stats :
          /\ task_name # other_name
          /\ task_stats[other_name].end_time # NoTime
          /\ Parallel(task_stats[task_name], task_stats[other_name])}

\* CrewEvaluator.get_parallel_execution_stats: dict(parallel_groups), which
\* has a key for every task something was appended for
get_parallel_execution_stats(task_stats) ==
  [task_name \in {n \in DOMAIN task_stats : ParallelGroup(task_stats, n) # {}} |->
     ParallelGroup(task_stats, task_name)]

-----------------------------------------------------------------------------
(* Crew (core.py) *)

\* Crew.__init__; pc is "new" for a Crew, and "overridden" for a SwarmCrew,
\* whose execute replaces Crew.execute
CrewInit(pc) ==
  /\ context = initial_context
  /\ remaining_tasks = <<>>
  /\ runner = [i \in TaskIds |-> "none"]
  /\ completed_tasks = <<>>
  /\ cpc = pc
  /\ task_result = [i \in TaskIds |-> NoneVal]
  /\ task_completed = [i \in TaskIds |-> FALSE]
  /\ lock = 0
  /\ evaluator = NoneVal

\* SwarmManager.__init__; pc is "new" for the manager of a SwarmCrew, and
\* "none" for a plain Crew, which has no manager
ManagerInit(pc) ==
  /\ task_queue = <<>>
  /\ task_results = EmptyMap
  /\ mpc = pc
  /\ dispatch = <<>>
  /\ error = <<>>
  /\ rotations = 0

ObserverInit ==
  /\ writes = [k \in ContextKeys |-> 0]
  /\ log = <<>>

\* no direct call
NoCall == [op |-> "none", state |-> "none", arg |-> NoneVal, result |-> NoneVal]

\* CrewBuilder.__init__
CrewBuilder == [agents |-> EmptyMap, tasks |-> <<>>, shared_context |-> EmptyMap]

BuilderInit ==
  /\ builder = CrewBuilder
  /\ added = CrewBuilder

\* a run of a crew: no direct call is made, the transport history is empty
SideInit ==
  /\ call = NoCall
  /\ grpc_calls = <<>>
  /\ debug_server = FALSE
  /\ BuilderInit

InitCrew ==
  /\ tasks \in TaskLists
  /\ agents = AgentNames
  /\ initial_context \in InitialContexts
  /\ CrewInit("new")
  /\ nodes = <<>>
  /\ ManagerInit("none")
  /\ ObserverInit
  /\ SideInit
  /\ registered = <<>>
  /\ admitted = <<>>

\* Crew.execute, up to the loop, but for the evaluator:
\* remaining_tasks = self.tasks.copy()
CopyTasks ==
  /\ cpc = "new"
  /\ remaining_tasks' = [i \in TaskIds |-> i]
  /\ cpc' = "loop"
  /\ UNCHANGED <<context, runner, completed_tasks, task_result, task_completed>>
  /\ UNCHANGED <<lock, configVars, sideVars, swarmVars, writes, log>>

\* Crew.execute(evaluate), up to the loop
CrewExecute(evaluate) ==
  /\ CopyTasks
  /\ evaluator' = IF evaluate THEN start_evaluation(CrewEvaluator) ELSE evaluator

\* the tasks of remaining_tasks that are ready, in order
ReadyOf(rem, ctx) == SelectSeq(rem, LAMBDA i : is_ready(tasks[i], ctx))

\* [dep.source_task for dep in task.dependencies]
SourceTasks(task) == [j \in DOMAIN task.dependencies |-> task.dependencies[j].source_task]

RECURSIVE RecordStarts(_, _, _)

\* the for loop over current_batch, for the evaluator ev (None without one):
\* record_task_start for every task of the batch, from the k-th on
RecordStarts(ev, batch, k) ==
  IF ev = NoneVal \/ k > Len(batch) THEN ev
  ELSE RecordStarts(record_task_start(ev, tasks[batch[k]].name, tasks[batch[k]].agent,
                                      SourceTasks(tasks[batch[k]])),
                    batch, k + 1)

\* StartBatch with a slip: the batch is not taken out of remaining_tasks
StartBatch_KeepsBatch ==
  /\ cpc = "loop"
  /\ remaining_tasks # <<>>
  /\ lock = 0
  /\ LET current_batch == ReadyOf(remaining_tasks, context)
     IN  /\ current_batch # <<>>
         /\ remaining_tasks' = remaining_tasks
         /\ runner' = [i \in TaskIds |->
                         IF i \in Range(current_batch) THEN "started" ELSE runner[i]]
  /\ cpc' = "join"
  /\ evaluator' = RecordStarts(evaluator, ReadyOf(remaining_tasks, context), 1)
  /\ UNCHANGED <<context, completed_tasks, task_result, task_completed>>
  /\ UNCHANGED <<lock, configVars, sideVars, swarmVars, writes, log>>

\* One iteration of the while loop that finds ready tasks, but for the
\* evaluator: the batch is taken under the lock and a thread is started for
\* each of its tasks.  The threads are started in the for loop one after
\* another; nothing they share with the scheduler is touched by the loop
\* itself, so they are all started in one step here.
TakeBatch ==
  /\ cpc = "loop"
  /\ remaining_tasks # <<>>
  /\ lock = 0
  /\ LET current_batch == ReadyOf(remaining_tasks, context)
     IN  /\ current_batch # <<>>
         /\ remaining_tasks' =
              SelectSeq(remaining_tasks, LAMBDA i : i \notin Range(current_batch))
         /\ runner' = [i \in TaskIds |->
                         IF i \in Range(current_batch) THEN "started" ELSE runner[i]]
  /\ cpc' = "join"
  /\ UNCHANGED <<context, completed_tasks, task_result, task_completed>>
  /\ UNCHANGED <<lock, configVars, sideVars, swarmVars, writes, log>>

\* One iteration of the while loop that finds ready tasks; with an evaluator
\* the start of every task of the batch is recorded
StartBatch ==
  /\ TakeBatch
  /\ evaluator' = RecordStarts(evaluator, ReadyOf(remaining_tasks, context), 1)

\* One iteration that finds no ready task, but for the evaluator: the
\* deadlock message is printed, the loop is left by break and execute
\* returns self.context.
Deadlock ==
  /\ cpc = "loop"
  /\ remaining_tasks # <<>>
  /\ lock = 0
  /\ ReadyOf(remaining_tasks, context) = <<>>
  /\ cpc' = "returned"
  /\ UNCHANGED <<context, remaining_tasks, runner, completed_tasks, task_result,
                 task_completed>>
  /\ UNCHANGED <<lock, configVars, sideVars, swarmVars, writes, log>>

\* One iteration that finds no ready task, and the end of execute
NoBatch ==
  /\ Deadlock
  /\ evaluator' = IF evaluator # NoneVal THEN end_evaluation(evaluator) ELSE evaluator

\* _task_runner: the thread enters the first locked section
RunnerAcquire(i) ==
  /\ runner[i] = "started"
  /\ lock = 0
  /\ lock' = i
  /\ runner' = [runner EXCEPT ![i] = "locked"]
  /\ UNCHANGED <<context, remaining_tasks, completed_tasks, cpc, task_result,
                 task_completed>>
  /\ UNCHANGED <<evaluator, configVars, sideVars, swarmVars, writes, log>>

\* _task_runner, first locked section: return when the task is not ready;
\* the lock is released on the way out
RunnerCheck(i) ==
  /\ runner[i] = "locked"
  /\ lock' = 0
  /\ runner' = [runner EXCEPT ![i] =
                  IF is_ready(tasks[i], context) THEN "checked" ELSE "returned"]
  /\ UNCHANGED <<context, remaining_tasks, completed_tasks, cpc, task_result,
                 task_completed>>
  /\ UNCHANGED <<evaluator, configVars, sideVars, swarmVars, writes, log>>

\* Task.execute up to the call of agent.run: the readiness test (ValueError
\* when it fails, caught in _task_runner) and the rendering of the prompt
ExecuteBegin(i) ==
  /\ runner[i] = "checked"
  /\ IF is_ready(tasks[i], context)
       THEN /\ runner' = [runner EXCEPT ![i] = "running"]
            /\ log' = Append(log, Event("start", i, Render(tasks[i], context), ""))
       ELSE /\ runner' = [runner EXCEPT ![i] = "failed"]
            /\ log' = log
  /\ UNCHANGED <<context, remaining_tasks, completed_tasks, cpc, task_result,
                 task_completed>>
  /\ UNCHANGED <<lock, evaluator, configVars, sideVars, swarmVars, writes>>

\* Task.execute from the return of agent.run: _result, the context, _completed
ExecuteEnd(i) ==
  /\ runner[i] = "running"
  /\ LET result == RunResult(tasks[i].name, i)
         key == tasks[i].result_key
     IN  /\ task_result' = [task_result EXCEPT ![i] = result]
         /\ IF key # NoKey
              THEN /\ context' = Put(context, key, result)
                   /\ writes' = Wrote(key)
              ELSE /\ context' = context
                   /\ writes' = writes
  /\ task_completed' = [task_completed EXCEPT ![i] = TRUE]
  /\ runner' = [runner EXCEPT ![i] = "executed"]
  /\ log' = Append(log, Event("ok", i, <<>>, ""))
  /\ UNCHANGED <<remaining_tasks, completed_tasks, cpc>>
  /\ UNCHANGED <<lock, evaluator, configVars, sideVars, swarmVars>>

\* ExecuteRaise with a slip: the task is marked completed although
\* agent.run raised
ExecuteRaise_MarksCompleted(i) ==
  /\ runner[i] = "running"
  /\ runner' = [runner EXCEPT ![i] = "failed"]
  /\ log' = Append(log, Event("error", i, <<>>, "agent raised"))
  /\ task_completed' = [task_completed EXCEPT ![i] = TRUE]
  /\ UNCHANGED <<context, remaining_tasks, completed_tasks, cpc, task_result>>
  /\ UNCHANGED <<lock, evaluator, configVars, sideVars, swarmVars, writes>>

\* agent.run raises: the exception leaves Task.execute and is caught and
\* printed by _task_runner, which returns
ExecuteRaise(i) ==
  /\ runner[i] = "running"
  /\ runner' = [runner EXCEPT ![i] = "failed"]
  /\ log' = Append(log, Event("error", i, <<>>, "agent raised"))
  /\ UNCHANGED <<context, remaining_tasks, completed_tasks, cpc, task_result,
                 task_completed>>
  /\ UNCHANGED <<lock, evaluator, configVars, sideVars, swarmVars, writes>>

\* _task_runner, second locked section, entered when the lock is free, but
\* for the evaluator
AppendCompleted(i) ==
  /\ runner[i] = "executed"
  /\ lock = 0
  /\ completed_tasks' = Append(completed_tasks, tasks[i].name)
  /\ runner' = [runner EXCEPT ![i] = "returned"]
  /\ UNCHANGED <<context, remaining_tasks, cpc, task_result, task_completed>>
  /\ UNCHANGED <<lock, configVars, sideVars, swarmVars, writes, log>>

\* RunnerRecord with a slip: with an evaluator the end of the task is
\* recorded instead of the name being appended to completed_tasks
RunnerRecord_RecordsInstead(i) ==
  /\ runner[i] = "executed"
  /\ lock = 0
  /\ IF evaluator # NoneVal
       THEN /\ completed_tasks' = completed_tasks
            /\ evaluator' = record_task_end(evaluator, tasks[i].name)
       ELSE /\ completed_tasks' = Append(completed_tasks, tasks[i].name)
            /\ evaluator' = evaluator
  /\ runner' = [runner EXCEPT ![i] = "returned"]
  /\ UNCHANGED <<context, remaining_tasks, cpc, task_result, task_completed>>
  /\ UNCHANGED <<lock, configVars, sideVars, swarmVars, writes, log>>

\* _task_runner, second locked section
RunnerRecord(i) ==
  /\ AppendCompleted(i)
  /\ evaluator' = IF evaluator # NoneVal THEN record_task_end(evaluator, tasks[i].name)
                                          ELSE evaluator

ThreadOver(i) == runner[i] \in {"none", "returned", "failed"}

\* JoinBatch with a slip: the loop goes on as soon as one thread is over
JoinBatch_FirstOver ==
  /\ cpc = "join"
  /\ \E i \in TaskIds : runner[i] \in {"returned", "failed"}
  /\ cpc' = "loop"
  /\ UNCHANGED <<context, remaining_tasks, runner, completed_tasks, task_result,
                 task_completed>>
  /\ UNCHANGED <<lock, evaluator, configVars, sideVars, swarmVars, writes, log>>

\* for thread in threads: thread.join()
JoinBatch ==
  /\ cpc = "join"
  /\ \A i \in TaskIds : ThreadOver(i)
  /\ cpc' = "loop"
  /\ UNCHANGED <<context, remaining_tasks, runner, completed_tasks, task_result,
                 task_completed>>
  /\ UNCHANGED <<lock, evaluator, configVars, sideVars, swarmVars, writes, log>>

\* the while condition fails: return self.context (but for the evaluator)
LoopOver ==
  /\ cpc = "loop"
  /\ remaining_tasks = <<>>
  /\ cpc' = "returned"
  /\ UNCHANGED <<context, remaining_tasks, runner, completed_tasks, task_result,
                 task_completed>>
  /\ UNCHANGED <<lock, configVars, sideVars, swarmVars, writes, log>>

\* the while condition fails, and the end of execute
CrewReturn ==
  /\ LoopOver
  /\ evaluator' = IF evaluator # NoneVal THEN end_evaluation(evaluator) ELSE evaluator

NextCrew ==
  \/ \E evaluate \in BOOLEAN : CrewExecute(evaluate)
  \/ StartBatch
  \/ NoBatch
  \/ \E i \in TaskIds : RunnerAcquire(i)
  \/ \E i \in TaskIds : RunnerCheck(i)
  \/ \E i \in TaskIds : ExecuteBegin(i)
  \/ \E i \in TaskIds : ExecuteEnd(i)
  \/ \E i \in TaskIds : ExecuteRaise(i)
  \/ \E i \in TaskIds : RunnerRecord(i)
  \/ JoinBatch
  \/ CrewReturn

SpecCrew == InitCrew /\ [][NextCrew]_vars

-----------------------------------------------------------------------------
(* SwarmNode (swarm/node.py) *)

\* SwarmNode.__init__
SwarmNode(node_id, available_agents) ==
  [node_id |-> node_id, available_agents |-> available_agents,
   status |-> "idle", current_task |-> NoKey]

\* execute_task with a slip: the node tests the readiness of the task, and so
\* its dependencies, before it looks at the placeholders
execute_task_ChecksReady(node, i, ctx) ==
  LET task == tasks[i]
  IN  IF task.agent \notin node.available_agents
        THEN {[status |-> "error", error |-> "agent not found", result |-> NoneVal,
               ran |-> FALSE]}
      ELSE IF ~is_ready(task, ctx)
        THEN {[status |-> "error", error |-> "missing variables", result |-> NoneVal,
               ran |-> FALSE]}
      ELSE {[status |-> "success", error |-> "", result |-> RunResult(task.name, i),
             ran |-> TRUE],
            [status |-> "error", error |-> "agent raised", result |-> NoneVal,
             ran |-> TRUE]}

\* SwarmNode.execute_task: the results the call can return.  agent.run either
\* returns or raises; "ran" tells whether agent.run was called.
execute_task(node, i, ctx) ==
  LET task == tasks[i]
      missing_vars == {j \in DOMAIN task.required_vars : task.required_vars[j] \notin DOMAIN ctx}
  IN  IF task.agent \notin node.available_agents
        THEN {[status |-> "error", error |-> "agent not found", result |-> NoneVal,
               ran |-> FALSE]}
      ELSE IF missing_vars # {}
        THEN {[status |-> "error", error |-> "missing variables", result |-> NoneVal,
               ran |-> FALSE]}
      ELSE {[status |-> "success", error |-> "", result |-> RunResult(task.name, i),
             ran |-> TRUE],
            [status |-> "error", error |-> "agent raised", result |-> NoneVal,
             ran |-> TRUE]}

-----------------------------------------------------------------------------
(* SwarmCrew (swarm/crew.py) and SwarmManager (swarm/manager.py) *)

NodeIds == {"local", "n1"}

NodeIndex(node_id) == {n \in DOMAIN nodes : nodes[n].node_id = node_id}

\* register_node with a slip: a node registered under an id that is already
\* registered goes to the end of the registry
register_node_MovesToEnd(ns, node) ==
  Append(SelectSeq(ns, LAMBDA other : other.node_id # node.node_id), node)

\* SwarmManager.register_node: self.nodes[node.node_id] = node
register_node(ns, node) ==
  IF \E n \in DOMAIN ns : ns[n].node_id = node.node_id
    THEN [n \in DOMAIN ns |-> IF ns[n].node_id = node.node_id THEN node ELSE ns[n]]
    ELSE Append(ns, node)

\* SwarmManager.unregister_node: del self.nodes[node_id] when present
unregister_node(ns, node_id) == SelectSeq(ns, LAMBDA node : node.node_id # node_id)

\* SwarmManager.get_available_node: index of the first idle node that has the
\* agent of the task, 0 for None
get_available_node(task) ==
  LET able == {n \in DOMAIN nodes :
                 nodes[n].status = "idle" /\ task.agent \in nodes[n].available_agents}
  IN  IF able = {} THEN 0 ELSE CHOOSE n \in able : \A m \in able : n <= m

\* observer: the sequence s without the element e
Without(s, e) == SelectSeq(s, LAMBDA x : x # e)

\* observer: the ids by the time their node was registered, after
\* register_node(node); registering again the node an id already holds is
\* no new registration
Registered(reg, ns, node) ==
  IF \E n \in DOMAIN ns : ns[n] = node
    THEN reg
    ELSE Append(Without(reg, node.node_id), node.node_id)

\* observer: the ids by the time they entered the registry, after
\* register_node of a node with this id
Admitted(adm, node_id) ==
  IF node_id \in Range(adm) THEN adm ELSE Append(adm, node_id)

\* dependencies_met with a slip: the result key is looked up, not the source
dependencies_met_ByKey(task) ==
  \A j \in DOMAIN task.dependencies :
    task.dependencies[j].result_key \in DOMAIN task_results

\* the test at the head of the loop of execute_tasks
dependencies_met(task) ==
  \A j \in DOMAIN task.dependencies :
    task.dependencies[j].source_task \in DOMAIN task_results

\* the context execute_tasks builds for the node
RECURSIVE AliasDeps(_, _, _)
AliasDeps(ctx, deps, j) ==
  IF j > Len(deps) THEN ctx
  ELSE AliasDeps(IF deps[j].source_task \in DOMAIN task_results
                   THEN Put(ctx, deps[j].result_key, task_results[deps[j].source_task])
                   ELSE ctx,
                 deps, j + 1)

DispatchContext(task) == AliasDeps(task_results, task.dependencies, 1)

\* SwarmCrew.__init__: Crew.__init__, a manager, the node "local" with the
\* agents of the crew
InitSwarm ==
  /\ tasks \in TaskLists
  /\ agents \in {{"Lw"}, AgentNames}
  /\ initial_context \in InitialContexts
  /\ CrewInit("overridden")
  /\ nodes = <<SwarmNode("local", agents)>>
  /\ ManagerInit("new")
  /\ ObserverInit
  /\ SideInit
  /\ registered = <<"local">>
  /\ admitted = <<"local">>

\* SwarmCrew.add_node
AddNode(node_id, available_agents) ==
  /\ mpc = "new"
  /\ nodes' = register_node(nodes, SwarmNode(node_id, available_agents))
  /\ registered' = Registered(registered, nodes, SwarmNode(node_id, available_agents))
  /\ admitted' = Admitted(admitted, node_id)
  /\ UNCHANGED <<task_queue, task_results, mpc, dispatch, error, rotations>>
  /\ UNCHANGED <<configVars, call, transportVars, builderVars, crewVars, writes, log>>

\* SwarmCrew.remove_node
RemoveNode(node_id) ==
  /\ mpc = "new"
  /\ nodes' = unregister_node(nodes, node_id)
  /\ registered' = Without(registered, node_id)
  /\ admitted' = Without(admitted, node_id)
  /\ UNCHANGED <<task_queue, task_results, mpc, dispatch, error, rotations>>
  /\ UNCHANGED <<configVars, call, transportVars, builderVars, crewVars, writes, log>>

\* SwarmCrew.execute up to the call of execute_tasks: the context is copied
\* into the results of the manager and the tasks are queued
SwarmExecute ==
  /\ mpc = "new"
  /\ task_results' = IF DOMAIN context # {} THEN Update(task_results, context)
                                              ELSE task_results
  /\ task_queue' = [i \in TaskIds |-> i]
  /\ mpc' = "loop"
  /\ UNCHANGED <<nodes, dispatch, error, rotations>>
  /\ UNCHANGED <<configVars, sideVars, crewVars, writes, log>>

\* execute_tasks: the dependencies of the head task are not met, it goes to
\* the end of the queue
Rotate ==
  /\ mpc = "loop"
  /\ task_queue # <<>>
  /\ ~dependencies_met(tasks[Head(task_queue)])
  /\ task_queue' = Append(Tail(task_queue), Head(task_queue))
  /\ rotations' = IF rotations < Len(task_queue) THEN rotations + 1 ELSE rotations
  /\ UNCHANGED <<nodes, task_results, mpc, dispatch, error>>
  /\ UNCHANGED <<configVars, sideVars, crewVars, writes, log>>

\* WaitForNode with a slip: the head task goes to the end of the queue
WaitForNode_Rotates ==
  /\ mpc = "loop"
  /\ task_queue # <<>>
  /\ dependencies_met(tasks[Head(task_queue)])
  /\ get_available_node(tasks[Head(task_queue)]) = 0
  /\ task_queue' = Append(Tail(task_queue), Head(task_queue))
  /\ UNCHANGED <<nodes, task_results, mpc, dispatch, error, rotations>>
  /\ UNCHANGED <<configVars, sideVars, crewVars, writes, log>>

\* execute_tasks: no node for the head task: sleep and look again
WaitForNode ==
  /\ mpc = "loop"
  /\ task_queue # <<>>
  /\ dependencies_met(tasks[Head(task_queue)])
  /\ get_available_node(tasks[Head(task_queue)]) = 0
  /\ UNCHANGED <<swarmVars, configVars, sideVars, crewVars, writes, log>>

\* execute_tasks: the head task is handed to a node with its context
Dispatch ==
  /\ mpc = "loop"
  /\ task_queue # <<>>
  /\ LET i == Head(task_queue)
         n == get_available_node(tasks[i])
     IN  /\ dependencies_met(tasks[i])
         /\ n # 0
         /\ dispatch' = [node |-> n, task |-> i, context |-> DispatchContext(tasks[i])]
         /\ log' = Append(log, Event("dispatch", i, <<>>, nodes[n].node_id))
  /\ mpc' = "executing"
  /\ rotations' = 0
  /\ UNCHANGED <<nodes, task_queue, task_results, error>>
  /\ UNCHANGED <<configVars, sideVars, crewVars, writes>>

\* observer: the log entries of one execute_task call
NodeEvents(i, ctx, result) ==
  IF result.ran
    THEN <<Event("start", i, Render(tasks[i], ctx), ""),
           Event(IF result.status = "success" THEN "ok" ELSE "error", i, <<>>, result.error)>>
    ELSE <<Event("error", i, <<>>, result.error)>>

\* TaskSucceeded with a slip: the result is also stored in the task, which is
\* marked completed, as Task.execute does
TaskSucceeded_MarksTask ==
  /\ mpc = "executing"
  /\ \E result \in execute_task(nodes[dispatch.node], dispatch.task, dispatch.context) :
       /\ result.status = "success"
       /\ task_results' = Put(task_results, tasks[dispatch.task].name, result.result)
       /\ task_result' = [task_result EXCEPT ![dispatch.task] = result.result]
       /\ writes' = Wrote(tasks[dispatch.task].name)
       /\ log' = log \o NodeEvents(dispatch.task, dispatch.context, result)
  /\ task_completed' = [task_completed EXCEPT ![dispatch.task] = TRUE]
  /\ task_queue' = Tail(task_queue)
  /\ mpc' = "loop"
  /\ dispatch' = <<>>
  /\ UNCHANGED <<nodes, error, rotations>>
  /\ UNCHANGED <<context, remaining_tasks, runner, completed_tasks, cpc, lock, evaluator>>
  /\ UNCHANGED <<configVars, sideVars>>

\* execute_tasks: node.execute_task returns success; the result is recorded
\* and the task leaves the queue
TaskSucceeded ==
  /\ mpc = "executing"
  /\ \E result \in execute_task(nodes[dispatch.node], dispatch.task, dispatch.context) :
       /\ result.status = "success"
       /\ task_results' = Put(task_results, tasks[dispatch.task].name, result.result)
       /\ writes' = Wrote(tasks[dispatch.task].name)
       /\ log' = log \o NodeEvents(dispatch.task, dispatch.context, result)
  /\ task_queue' = Tail(task_queue)
  /\ mpc' = "loop"
  /\ dispatch' = <<>>
  /\ UNCHANGED <<nodes, error, rotations>>
  /\ UNCHANGED <<configVars, sideVars, crewVars>>

\* TaskFailed with a slip: the error is recorded but the loop goes on with
\* the next task
TaskFailed_GoesOn ==
  /\ mpc = "executing"
  /\ \E result \in execute_task(nodes[dispatch.node], dispatch.task, dispatch.context) :
       /\ result.status # "success"
       /\ error' = [task |-> tasks[dispatch.task].name, msg |-> result.error]
       /\ log' = log \o NodeEvents(dispatch.task, dispatch.context, result)
  /\ mpc' = "loop"
  /\ task_queue' = Tail(task_queue)
  /\ dispatch' = <<>>
  /\ UNCHANGED <<nodes, task_results, rotations>>
  /\ UNCHANGED <<configVars, sideVars, crewVars, writes>>

\* execute_tasks: node.execute_task returns an error; RuntimeError
TaskFailed ==
  /\ mpc = "executing"
  /\ \E result \in execute_task(nodes[dispatch.node], dispatch.task, dispatch.context) :
       /\ result.status # "success"
       /\ error' = [task |-> tasks[dispatch.task].name, msg |-> result.error]
       /\ log' = log \o NodeEvents(dispatch.task, dispatch.context, result)
  /\ mpc' = "raised"
  /\ dispatch' = <<>>
  /\ UNCHANGED <<nodes, task_queue, task_results, rotations>>
  /\ UNCHANGED <<configVars, sideVars, crewVars, writes>>

\* execute_tasks: the queue is empty, return self.task_results
SwarmReturn ==
  /\ mpc = "loop"
  /\ task_queue = <<>>
  /\ mpc' = "returned"
  /\ UNCHANGED <<nodes, task_queue, task_results, dispatch, error, rotations>>
  /\ UNCHANGED <<configVars, sideVars, crewVars, writes, log>>

\* the steps of SwarmManager.execute_tasks
ExecuteTasks ==
  \/ Rotate
  \/ WaitForNode
  \/ Dispatch
  \/ TaskSucceeded
  \/ TaskFailed
  \/ SwarmReturn

NextSwarm ==
  \/ AddNode("n1", {"Rw"})
  \/ \E node_id \in NodeIds : RemoveNode(node_id)
  \/ SwarmExecute
  \/ ExecuteTasks

SpecSwarm == InitSwarm /\ [][NextSwarm]_vars

\* execute_tasks runs in one thread that keeps running until it returns or raises
FairSwarm == SpecSwarm /\ WF_vars(ExecuteTasks)

\* a Crew or a SwarmCrew, and its run
Init == InitCrew \/ InitSwarm

Next == NextCrew \/ NextSwarm

Spec == Init /\ [][Next]_vars

-----------------------------------------------------------------------------
(* RemoteVerifier.force_remote_execution (swarm/diagnostics.py) *)

\* del local_node.available_agents[agent_name] on the node table ns
force_remote_execution(ns, agent_name, local_node_id) ==
  [n \in DOMAIN ns |->
     IF ns[n].node_id = local_node_id
       THEN [ns[n] EXCEPT !.available_agents = @ \ {agent_name}]
       ELSE ns[n]]

\* verifier.force_remote_execution(agent_name) on a SwarmCrew that has not
\* run yet.  The node "local" was made by SwarmCrew.__init__ with the agents
\* dict of the crew itself (SwarmNode keeps the reference, so does Crew):
\* the two tables are one object, and the del is seen in both.
ForceRemoteExecution(agent_name) ==
  /\ mpc = "new"
  /\ call' = [op |-> "force_remote_execution", state |-> "returned", arg |-> NoneVal,
              result |-> NoneVal]
  /\ IF NodeIndex("local") # {} /\ agent_name \in agents
       THEN /\ nodes' = force_remote_execution(nodes, agent_name, "local")
            /\ agents' = agents \ {agent_name}
       ELSE UNCHANGED <<nodes, agents>>
  /\ UNCHANGED <<tasks, initial_context, task_queue, task_results, mpc, dispatch, error,
                 rotations>>
  /\ UNCHANGED <<transportVars, builderVars, registryVars, crewVars, writes, log>>

\* a SwarmCrew whose nodes are set up, agents being forced off the local node
NextVerifier ==
  \/ AddNode("n1", {"Rw"})
  \/ AddNode("n1", AgentNames)
  \/ \E node_id \in NodeIds : RemoveNode(node_id)
  \/ \E agent_name \in AgentNames : ForceRemoteExecution(agent_name)

SpecVerifier == InitSwarm /\ [][NextVerifier]_vars

-----------------------------------------------------------------------------
(* Direct calls of Task.is_ready, Task.execute and SwarmNode.execute_task *)

UnitKeys == {"x", "a", "b", "k", "z"}

\* the context with the keys K, those of N mapped to None
ContextOf(K, N) == [k \in K |-> IF k \in N THEN NoneVal ELSE InitVal(k)]

\* the contexts a call is given: any keys, any of them mapped to None
UnitContexts == UNION {{ContextOf(K, N) : N \in SUBSET K} : K \in SUBSET UnitKeys}

\* the operations called directly
UnitOps == {"is_ready", "execute", "execute_task"}

\* One task, one context, and one call: task.is_ready(context),
\* task.execute(context), or node.execute_task(task, context) on a node of
\* any agent table.  The context is the dict the caller passes; for
\* task.execute the model is at the entry of the method.
InitUnit ==
  /\ tasks \in {<<task>> : task \in TaskPool}
  /\ agents = AgentNames
  /\ initial_context \in UnitContexts
  /\ context = initial_context
  /\ \E op \in UnitOps :
       /\ call = [op |-> op, state |-> "new", arg |-> NoneVal, result |-> NoneVal]
       /\ runner = [i \in TaskIds |-> IF op = "execute" THEN "checked" ELSE "none"]
       /\ \/ op = "execute_task" /\
             nodes \in {<<SwarmNode("n1", available_agents)>> :
                          available_agents \in SUBSET AgentNames}
          \/ op # "execute_task" /\ nodes = <<>>
  /\ remaining_tasks = <<>>
  /\ completed_tasks = <<>>
  /\ cpc = "none"
  /\ task_result = [i \in TaskIds |-> NoneVal]
  /\ task_completed = [i \in TaskIds |-> FALSE]
  /\ lock = 0
  /\ evaluator = NoneVal
  /\ ManagerInit("none")
  /\ ObserverInit
  /\ grpc_calls = <<>>
  /\ debug_server = FALSE
  /\ BuilderInit
  /\ registered = <<>>
  /\ admitted = <<>>

\* task.is_ready(context)
CallIsReady ==
  /\ call.op = "is_ready"
  /\ call.state = "new"
  /\ call' = [call EXCEPT !.state = "returned", !.result = is_ready(tasks[1], context)]
  /\ UNCHANGED <<configVars, crewVars, swarmVars, writes, log, transportVars, builderVars, registryVars>>

\* node.execute_task(task, context)
CallExecuteTask ==
  /\ call.op = "execute_task"
  /\ call.state = "new"
  /\ \E result \in execute_task(nodes[1], 1, context) :
       /\ call' = [call EXCEPT !.state = "returned", !.result = result]
       /\ log' = log \o NodeEvents(1, context, result)
  /\ UNCHANGED <<configVars, crewVars, swarmVars, writes, transportVars, builderVars, registryVars>>

NextUnit ==
  \/ CallIsReady
  \/ \E i \in TaskIds : ExecuteBegin(i)
  \/ \E i \in TaskIds : ExecuteEnd(i)
  \/ \E i \in TaskIds : ExecuteRaise(i)
  \/ CallExecuteTask

SpecUnit == InitUnit /\ [][NextUnit]_vars

-----------------------------------------------------------------------------
(* Direct calls of register_node, unregister_node and get_available_node *)

\* the status attribute of a node, as its owner has set it
NodeStatuses == {"idle", "busy"}

\* SwarmManager.__init__: a manager on its own, no node, no task
InitManager ==
  /\ tasks = <<>>
  /\ agents = AgentNames
  /\ initial_context = EmptyMap
  /\ CrewInit("none")
  /\ nodes = <<>>
  /\ ManagerInit("new")
  /\ ObserverInit
  /\ SideInit
  /\ registered = <<>>
  /\ admitted = <<>>

\* manager.register_node(node), for a node of any agent table and status
RegisterNode(node_id, available_agents, status) ==
  LET node == [SwarmNode(node_id, available_agents) EXCEPT !.status = status]
  IN  /\ nodes' = register_node(nodes, node)
      /\ registered' = Registered(registered, nodes, node)
      /\ admitted' = Admitted(admitted, node_id)
      /\ call' = NoCall
      /\ UNCHANGED <<task_queue, task_results, mpc, dispatch, error, rotations>>
      /\ UNCHANGED <<configVars, crewVars, writes, log, transportVars, builderVars>>

\* manager.unregister_node(node_id)
UnregisterNode(node_id) ==
  /\ nodes' = unregister_node(nodes, node_id)
  /\ registered' = Without(registered, node_id)
  /\ admitted' = Without(admitted, node_id)
  /\ call' = NoCall
  /\ UNCHANGED <<task_queue, task_results, mpc, dispatch, error, rotations>>
  /\ UNCHANGED <<configVars, crewVars, writes, log, transportVars, builderVars>>

\* manager.get_available_node(task): the node returned, or None
CallGetAvailableNode(task) ==
  /\ LET n == get_available_node(task)
     IN  call' = [op |-> "get_available_node", state |-> "returned", arg |-> task,
                  result |-> IF n = 0 THEN NoneVal ELSE nodes[n]]
  /\ UNCHANGED <<configVars, crewVars, swarmVars, writes, log, transportVars, builderVars, registryVars>>

NextManager ==
  \/ \E node_id \in NodeIds, available_agents \in SUBSET AgentNames,
        status \in NodeStatuses : RegisterNode(node_id, available_agents, status)
  \/ \E node_id \in NodeIds : UnregisterNode(node_id)
  \/ \E task \in TaskPool : CallGetAvailableNode(task)

SpecManager == InitManager /\ [][NextManager]_vars

-----------------------------------------------------------------------------
(* The transport: SwarmNodeServicer (swarm/server.py), SwarmNodeClient       *)
(* (swarm/client.py), the history kept by swarm/debug.py                     *)

\* swarm_pb2.TaskMessage, as the handler reads it
TaskMessage(name, agent_name) == [name |-> name, agent_name |-> agent_name]

\* swarm_pb2.NodeInfo, as the handler reads it
NodeInfo(node_id) == [node_id |-> node_id]

\* SwarmNode.get_status, the fields the handlers copy into a NodeStatus
get_status(node) ==
  [node_id |-> node.node_id, status |-> node.status, current_task |-> node.current_task]

\* SwarmManager.get_system_status (without debug): the status of every node
\* and the lengths of the queue and of the result dict
get_system_status ==
  [nodes |-> [n \in DOMAIN nodes |-> get_status(nodes[n])],
   pending_tasks |-> Len(task_queue),
   completed_tasks |-> Cardinality(DOMAIN task_results)]

\* the outcome of a call that ends with an exception
Raised(exception) ==
  [status |-> "raised", error |-> exception, result |-> NoneVal, ran |-> FALSE]

\* the requests a servicer is sent, and the tasks a client is given
ServerCalls ==
  {[op |-> "ExecuteTask", state |-> "new", arg |-> TaskMessage(name, agent_name),
    result |-> NoneVal] : name \in {"A", "B", "C"}, agent_name \in AgentNames}
  \cup {[op |-> "Heartbeat", state |-> "new", arg |-> NodeInfo(node_id),
          result |-> NoneVal] : node_id \in NodeIds}
  \cup {[op |-> "client.execute_task", state |-> "new", arg |-> task,
          result |-> NoneVal] : task \in TaskPool}

\* serve(node, debug): a servicer on a node of any agent table, on a plain or
\* a debug server, and one call: a request to the servicer, or a task given
\* to a SwarmNodeClient
InitServer ==
  /\ tasks = <<>>
  /\ agents = AgentNames
  /\ initial_context = EmptyMap
  /\ CrewInit("none")
  /\ nodes \in {<<SwarmNode(node_id, available_agents)>> :
                  node_id \in NodeIds, available_agents \in SUBSET AgentNames}
  /\ ManagerInit("none")
  /\ ObserverInit
  /\ call \in ServerCalls
  /\ grpc_calls = <<>>
  /\ debug_server \in BOOLEAN
  /\ BuilderInit
  /\ registered = <<>>
  /\ admitted = <<>>

\* ExecuteTask handler: the arguments of Task(...) are evaluated;
\* self.node.available_agents[request.agent_name] raises KeyError for an
\* agent the node does not have
HandlerLookup ==
  /\ call.op = "ExecuteTask"
  /\ call.state = "new"
  /\ call' = IF call.arg.agent_name \in nodes[1].available_agents
               THEN [call EXCEPT !.state = "agent"]
               ELSE [call EXCEPT !.state = "raised", !.result = Raised("KeyError")]
  /\ UNCHANGED <<configVars, crewVars, swarmVars, writes, log, transportVars, builderVars, registryVars>>

\* ExecuteTask handler: Task(name=..., agent=..., data=...) is called;
\* Task.__init__ has no parameter data and requires prompt_template, the call
\* raises TypeError.  The exception leaves the handler; the wrapper of the
\* debug server logs a call only when the handler returns.
HandlerTask ==
  /\ call.op = "ExecuteTask"
  /\ call.state = "agent"
  /\ call' = [call EXCEPT !.state = "raised", !.result = Raised("TypeError")]
  /\ UNCHANGED <<configVars, crewVars, swarmVars, writes, log, transportVars, builderVars, registryVars>>

\* Heartbeat handler: the status of the node is returned; on a debug server
\* the wrapper of the handler records the call with log_grpc_call
Heartbeat ==
  /\ call.op = "Heartbeat"
  /\ call.state = "new"
  /\ LET response == get_status(nodes[1])
     IN  /\ call' = [call EXCEPT !.state = "replied", !.result = response]
         /\ grpc_calls' =
              IF debug_server
                THEN Append(grpc_calls, [method |-> "Heartbeat", request |-> call.arg,
                                         response |-> response])
                ELSE grpc_calls
  /\ UNCHANGED <<configVars, crewVars, swarmVars, writes, log, debug_server, registryVars,
                 builderVars>>

\* SwarmNodeClient.execute_task: the TaskMessage is built from task.data and
\* dep.task_name, attributes a Task and a TaskDependency do not have:
\* AttributeError, before any request is sent
ClientExecuteTask ==
  /\ call.op = "client.execute_task"
  /\ call.state = "new"
  /\ call' = [call EXCEPT !.state = "raised", !.result = Raised("AttributeError")]
  /\ UNCHANGED <<configVars, crewVars, swarmVars, writes, log, transportVars, builderVars, registryVars>>

NextServer ==
  \/ HandlerLookup
  \/ HandlerTask
  \/ Heartbeat
  \/ ClientExecuteTask

SpecServer == InitServer /\ [][NextServer]_vars

-----------------------------------------------------------------------------
(* CrewBuilder and AdvancedCrewBuilder (builder.py) *)

\* an Agent object, told apart by its own name
Agent(name) == [name |-> name]

\* a variant of add_agent that keeps an agent already stored under the name
add_agent_KeepsFirst(b, name, agent) ==
  IF name \in DOMAIN b.agents THEN b ELSE [b EXCEPT !.agents = Put(@, name, agent)]

\* CrewBuilder.add_agent: self.agents[name] = agent
add_agent(b, name, agent) == [b EXCEPT !.agents = Put(@, name, agent)]

\* CrewBuilder.add_task: self.tasks.append(task)
add_task(b, task) == [b EXCEPT !.tasks = Append(@, task)]

\* CrewBuilder.add_shared_context: self.shared_context[key] = value
add_shared_context(b, key, value) == [b EXCEPT !.shared_context = Put(@, key, value)]

\* CrewBuilder.build: Crew(self.agents, self.tasks, self.shared_context); the
\* crew keeps the two first as they are and a copy of the third as its context
build(b) == [agents |-> b.agents, tasks |-> b.tasks, context |-> b.shared_context]

\* how a call of validate_crew ends
Returned == [status |-> "returned", exception |-> "", error |-> "", task |-> NoKey]

Invalid(exception, message, name) ==
  [status |-> "raised", exception |-> exception, error |-> message, task |-> name]

\* next((t for t in self.tasks if t.name == name), None): the positions of ts
\* that bear the name; the first of them is what next returns
Named(ts, name) == {i \in DOMAIN ts : ts[i].name = name}

First(S) == CHOOSE i \in S : \A j \in S : i <= j

RECURSIVE check_circular_deps(_, _, _, _)
RECURSIVE check_each_dep(_, _, _, _, _)

\* the closure check_circular_deps of validate_crew, with the sets path and
\* visited it shares with its caller handed in and out; ret is what the call
\* returns, or the exception that leaves it
check_circular_deps(ts, task_name, path, visited) ==
  IF task_name \in path THEN [ret |-> "True", path |-> path, visited |-> visited]
  ELSE IF task_name \in visited
  THEN [ret |-> "False", path |-> path, visited |-> visited]
  ELSE LET p == path \cup {task_name}
           v == visited \cup {task_name}
       IN IF Named(ts, task_name) = {}
          THEN [ret |-> "False", path |-> p \ {task_name}, visited |-> v]
          ELSE LET r == check_each_dep(ts, ts[First(Named(ts, task_name))].dependencies,
                                       1, p, v)
               IN IF r.ret = "False" THEN [r EXCEPT !.path = @ \ {task_name}] ELSE r

\* for dep in task.dependencies: if check_circular_deps(dep.task_name): return True
check_each_dep(ts, deps, k, path, visited) ==
  IF k > Len(deps) THEN [ret |-> "False", path |-> path, visited |-> visited]
  ELSE IF "task_name" \notin DOMAIN deps[k]
  THEN [ret |-> "AttributeError", path |-> path, visited |-> visited]
  ELSE LET r == check_circular_deps(ts, deps[k].task_name, path, visited)
       IN IF r.ret = "False" THEN check_each_dep(ts, deps, k + 1, r.path, r.visited)
          ELSE r

RECURSIVE verify_dependencies(_, _, _)

\* the loop of validate_crew over the dependencies of one task: "" when it
\* runs through, else what it raises
verify_dependencies(ts, deps, k) ==
  IF k > Len(deps) THEN ""
  ELSE IF "task_name" \notin DOMAIN deps[k] THEN "AttributeError"
  ELSE IF Named(ts, deps[k].task_name) = {} THEN "Dependency task not found"
  ELSE IF deps[k].result_key = NoKey THEN "Missing result key"
  ELSE verify_dependencies(ts, deps, k + 1)

RECURSIVE validate_each_task(_, _, _, _, _)

\* the loop of validate_crew over self.tasks, from the k-th task on
validate_each_task(ts, ags, k, path, visited) ==
  IF k > Len(ts) THEN Returned
  ELSE LET task == ts[k]
           c == check_circular_deps(ts, task.name, path, visited)
       IN IF c.ret = "AttributeError"
          THEN Invalid("AttributeError", "task_name", task.name)
          ELSE IF c.ret = "True"
          THEN Invalid("ValueError", "Circular dependency detected", task.name)
          ELSE IF "agent_name" \notin DOMAIN task
          THEN Invalid("AttributeError", "agent_name", task.name)
          ELSE IF task.agent_name # NoKey /\ task.agent_name \notin DOMAIN ags
          THEN Invalid("ValueError", "Missing agent", task.name)
          ELSE LET d == verify_dependencies(ts, task.dependencies, 1)
               IN IF d = "" THEN validate_each_task(ts, ags, k + 1, c.path, c.visited)
                  ELSE IF d = "AttributeError"
                  THEN Invalid("AttributeError", "task_name", task.name)
                  ELSE Invalid("ValueError", d, task.name)

\* AdvancedCrewBuilder.validate_crew
validate_crew(b) == validate_each_task(b.tasks, b.agents, 1, {}, {})

\* AdvancedCrewBuilder.add_task_chain: the loop body names TaskDependency,
\* which builder.py does not import, before it appends anything; with fewer
\* than two tasks the loop is empty and self.add_tasks, which no class
\* defines, is looked up.  Either way the tasks and the builder stay as they
\* were; result holds the tasks of the chain after the call.
add_task_chain(b, chain) ==
  [Raised(IF Len(chain) >= 2 THEN "NameError" ELSE "AttributeError")
     EXCEPT !.result = chain]

\* what the add calls are made with
ContextItems == {"x"} \X {InitVal("x"), NoneVal}

\* the chains add_task_chain is called with
Chains == {ch \in TaskLists : Len(ch) <= 2 /\ \A i \in DOMAIN ch : ch[i].dependencies = <<>>}

\* a TaskDependency that has been given the attribute validate_crew reads:
\* task_name, equal to its source_task
NamedDependency(s, k) == [source_task |-> s, result_key |-> k, task_name |-> s]

\* a Task that has been given the attribute validate_crew reads: agent_name,
\* the name of its agent; d lists the names of its source tasks
NamedTask(n, a, d, r) ==
  [name |-> n, agent |-> a, required_vars |-> <<>>,
   dependencies |-> [j \in DOMAIN d |-> NamedDependency(d[j], "k")],
   result_key |-> r, agent_name |-> a]

\* such tasks: a cycle of two, a task that depends on the cycle, a task that
\* depends on itself, a task on its own
NamedPool ==
  { NamedTask("A", "Lw", <<"B">>, "k"),
    NamedTask("B", "Lw", <<"A">>, "k"),
    NamedTask("X", "Lw", <<"A">>, "k"),
    NamedTask("S", "Rw", <<"S">>, "k"),
    NamedTask("D", "Lw", <<>>, "k") }

\* any builder the add calls can have made, from Task objects as core.py
\* makes them or from tasks that carry the attributes validate_crew reads
Builders ==
  { [agents |-> ags, tasks |-> ts, shared_context |-> EmptyMap] :
      ags \in UNION {[S -> {Agent(a) : a \in AgentNames}] : S \in SUBSET AgentNames},
      ts \in TaskLists \cup InjSeqs(NamedPool, MaxTasks) }

\* a new builder, filled add by add and built at any moment
InitBuilder ==
  /\ tasks = <<>>
  /\ agents = {}
  /\ initial_context = EmptyMap
  /\ CrewInit("none")
  /\ nodes = <<>>
  /\ ManagerInit("none")
  /\ ObserverInit
  /\ SideInit
  /\ registered = <<>>
  /\ admitted = <<>>

AddAgent(name, agent) ==
  /\ builder' = add_agent(builder, name, agent)
  /\ added' = [added EXCEPT !.agents = Put(@, name, agent)]
  /\ call' = NoCall
  /\ UNCHANGED <<configVars, crewVars, swarmVars, writes, log, transportVars, registryVars>>

AddTask(task) ==
  /\ Len(builder.tasks) < MaxTasks
  /\ task \notin Range(builder.tasks)
  /\ builder' = add_task(builder, task)
  /\ added' = [added EXCEPT !.tasks = @ \o <<task>>]
  /\ call' = NoCall
  /\ UNCHANGED <<configVars, crewVars, swarmVars, writes, log, transportVars, registryVars>>

AddSharedContext(key, value) ==
  /\ builder' = add_shared_context(builder, key, value)
  /\ added' = [added EXCEPT !.shared_context = Put(@, key, value)]
  /\ call' = NoCall
  /\ UNCHANGED <<configVars, crewVars, swarmVars, writes, log, transportVars, registryVars>>

Build ==
  /\ call' = [op |-> "build", state |-> "returned", arg |-> NoneVal,
              result |-> build(builder)]
  /\ UNCHANGED <<configVars, crewVars, swarmVars, writes, log, transportVars, registryVars,
                 builderVars>>

NextBuilder ==
  \/ \E name \in AgentNames, a \in AgentNames : AddAgent(name, Agent(a))
  \/ \E task \in TaskPool : AddTask(task)
  \/ \E item \in ContextItems : AddSharedContext(item[1], item[2])
  \/ Build

SpecBuilder == InitBuilder /\ [][NextBuilder]_vars

\* one call of validate_crew or add_task_chain on any builder
InitValidate ==
  /\ tasks = <<>>
  /\ agents = {}
  /\ initial_context = EmptyMap
  /\ CrewInit("none")
  /\ nodes = <<>>
  /\ ManagerInit("none")
  /\ ObserverInit
  /\ registered = <<>>
  /\ admitted = <<>>
  /\ call = NoCall
  /\ grpc_calls = <<>>
  /\ debug_server = FALSE
  /\ builder \in Builders
  /\ added = builder

ValidateCrew ==
  /\ call.op = "none"
  /\ LET r == validate_crew(builder)
     IN call' = [op |-> "validate_crew", state |-> r.status, arg |-> NoneVal, result |-> r]
  /\ UNCHANGED <<configVars, crewVars, swarmVars, writes, log, transportVars, registryVars,
                 builderVars>>

AddTaskChain(chain) ==
  /\ call.op = "none"
  /\ LET r == add_task_chain(builder, chain)
     IN call' = [op |-> "add_task_chain", state |-> r.status, arg |-> chain, result |-> r]
  /\ UNCHANGED <<configVars, crewVars, swarmVars, writes, log, transportVars, registryVars,
                 builderVars>>

NextValidate ==
  \/ ValidateCrew
  \/ \E chain \in Chains : AddTaskChain(chain)

SpecValidate == InitValidate /\ [][NextValidate]_vars

-----------------------------------------------------------------------------
(* Direct calls of CrewEvaluator.get_parallel_execution_stats *)

\* the statistics of one task: started at some time, and ended at that time
\* or later, or not ended
StatsOf(task_name) ==
  {TaskExecutionStats(task_name, start_time, end_time, <<>>, "Lw") :
     start_time \in 1..MaxTime,
     end_time \in {NoTime} \cup 1..MaxTime} \
  {stats \in [task_name : {task_name}, start_time : 1..MaxTime, end_time : 1..MaxTime,
               dependencies : {<<>>}, agent_name : {"Lw"}] :
     stats.end_time < stats.start_time}

\* the task_stats of an evaluator: statistics for any of three task names
TaskStats ==
  UNION {{ts \in [S -> UNION {StatsOf(n) : n \in S}] : \A n \in S : ts[n].task_name = n} :
           S \in SUBSET {"A", "B", "C"}}

\* an evaluator that has recorded any starts and ends, and one call of
\* get_parallel_execution_stats on it
InitStats ==
  /\ tasks = <<>>
  /\ agents = {}
  /\ initial_context = EmptyMap
  /\ context = EmptyMap
  /\ remaining_tasks = <<>>
  /\ runner = <<>>
  /\ completed_tasks = <<>>
  /\ cpc = "none"
  /\ task_result = <<>>
  /\ task_completed = <<>>
  /\ lock = 0
  /\ evaluator \in {[CrewEvaluator EXCEPT !.task_stats = ts] : ts \in TaskStats}
  /\ nodes = <<>>
  /\ ManagerInit("none")
  /\ ObserverInit
  /\ call = [op |-> "get_parallel_execution_stats", state |-> "new", arg |-> NoneVal,
             result |-> NoneVal]
  /\ grpc_calls = <<>>
  /\ debug_server = FALSE
  /\ BuilderInit
  /\ registered = <<>>
  /\ admitted = <<>>

\* evaluator.get_parallel_execution_stats()
CallGetParallelExecutionStats ==
  /\ call.op = "get_parallel_execution_stats"
  /\ call.state = "new"
  /\ call' = [call EXCEPT !.state = "returned",
                          !.result = get_parallel_execution_stats(evaluator.task_stats)]
  /\ UNCHANGED <<configVars, crewVars, swarmVars, writes, log, transportVars, builderVars,
                 registryVars>>

NextStats == CallGetParallelExecutionStats

SpecStats == InitStats /\ [][NextStats]_vars

-----------------------------------------------------------------------------
(* Observations on the log *)

\* positions of the log where task i has the event ev
Events(ev, i) == {n \in DOMAIN log : log[n].ev = ev /\ log[n].task = i}

\* a task named name has been executed successfully before position n
SucceededBefore(name, n) ==
  \E m \in DOMAIN log : m < n /\ log[m].ev = "ok" /\ tasks[log[m].task].name = name

\* the tasks whose agent call has returned
Succeeded == {i \in TaskIds : Events("ok", i) # {}}

\* the tasks whose execution ended in an error
Failed == {i \in TaskIds : Events("error", i) # {}}

\* every dependency of task i was executed successfully before position n
SourcesSucceededBefore(i, n) ==
  \A j \in DOMAIN tasks[i].dependencies :
    SucceededBefore(tasks[i].dependencies[j].source_task, n)

-----------------------------------------------------------------------------
(* C1 *)

\* C1: in a run of SwarmManager.execute_tasks, a task is handed to a node
\* only after every source task of its dependencies has been executed
\* successfully by a node earlier in the run.
C1_DispatchAfterSources ==
  \A n \in DOMAIN log :
    log[n].ev = "dispatch" => SourcesSucceededBefore(log[n].task, n)

-----------------------------------------------------------------------------
(* C2 *)

\* C2: in a run of Crew.execute, the agent call of a task starts only after
\* the agent call of every source task of its dependencies has returned.
C2_StartAfterSources ==
  \A n \in DOMAIN log :
    log[n].ev = "start" => SourcesSucceededBefore(log[n].task, n)

-----------------------------------------------------------------------------
(* C3 *)

\* C3: during a run no key of the result context is written more than once,
\* and a key of the initial context is not written at all.
C3_WriteOnce ==
  \A k \in ContextKeys :
    /\ writes[k] <= 1
    /\ k \in DOMAIN initial_context => writes[k] = 0

-----------------------------------------------------------------------------
(* C4 *)

\* C4: in a run of Crew.execute or of SwarmManager.execute_tasks, the run
\* operation of the agent is invoked at most once for each task of the list.
C4_RunAtMostOnce ==
  \A i \in TaskIds : Cardinality(Events("start", i)) <= 1

\* a run in which one task failed, one succeeded and one never ran, each
\* with at most one agent call behind it
C4_Witness ==
  /\ (cpc = "returned" \/ mpc = "raised")
  /\ Failed # {}
  /\ Succeeded # {}
  /\ \E i \in TaskIds : Events("start", i) = {}
  /\ \E i \in Failed : Cardinality(Events("start", i)) = 1

-----------------------------------------------------------------------------
(* C5 *)

\* no queued task has its dependencies met: nothing can be dispatched any more
AllBlocked == \A i \in Range(task_queue) : ~dependencies_met(tasks[i])

\* C5: when no queued task can ever be dispatched, execute_tasks has left its
\* loop (with a deadlock error) once the whole queue has been rotated without
\* a dispatch.
C5_DeadlockEndsLoop ==
  (task_queue # <<>> /\ AllBlocked /\ rotations >= Len(task_queue)) => mpc # "loop"

-----------------------------------------------------------------------------
(* C6 *)

DistinctNames == \A i, j \in TaskIds : tasks[i].name = tasks[j].name => i = j

\* the names a task named n depends on
SourcesOf(n) ==
  UNION {{tasks[i].dependencies[j].source_task : j \in DOMAIN tasks[i].dependencies} :
         i \in {t \in TaskIds : tasks[t].name = n}}

\* the names reachable from the set S along at most k dependencies, k >= 1
RECURSIVE ReachableFrom(_, _)
ReachableFrom(S, k) ==
  LET step == UNION {SourcesOf(n) : n \in S}
  IN  IF k <= 1 THEN step ELSE step \cup ReachableFrom(step, k - 1)

Acyclic == \A n \in TaskNames : n \notin ReachableFrom({n}, Len(tasks))

SourcesEnqueued == \A n \in TaskNames : SourcesOf(n) \subseteq TaskNames

PlaceholdersBound ==
  \A i \in TaskIds : \A j \in DOMAIN tasks[i].required_vars :
    \/ tasks[i].required_vars[j] \in DOMAIN initial_context
    \/ \E d \in DOMAIN tasks[i].dependencies :
         tasks[i].dependencies[d].result_key = tasks[i].required_vars[j]

AgentsHosted ==
  \A i \in TaskIds : \E n \in DOMAIN nodes :
    nodes[n].status = "idle" /\ tasks[i].agent \in nodes[n].available_agents

WellFormed ==
  DistinctNames /\ Acyclic /\ SourcesEnqueued /\ PlaceholdersBound /\ AgentsHosted

AgentRaised == mpc = "raised" /\ error.msg = "agent raised"

AllExecuted == mpc = "returned" /\ task_queue = <<>> /\ Succeeded = TaskIds

\* C6: for a well-formed task set (distinct names, acyclic, sources queued,
\* placeholders bound, agents hosted by an idle node), in any declaration
\* order, execute_tasks eventually returns with an empty queue and a result
\* recorded for every task, unless an agent fails.
C6_WellFormedTerminates ==
  (mpc = "loop" /\ WellFormed) ~> (AllExecuted \/ AgentRaised)

\* a chain declared in reverse order has run to the end
C6_Witness ==
  /\ WellFormed
  /\ AllExecuted
  /\ Len(tasks) = 3
  /\ tasks[1].dependencies # <<>>
  /\ \A k \in TaskNames : k \in DOMAIN task_results

-----------------------------------------------------------------------------
(* C7 *)

\* task i has a dependency that nothing can satisfy: its source is not in the
\* list and its key is neither in the initial context nor a result key
NeverSatisfied(i) ==
  \E j \in DOMAIN tasks[i].dependencies :
    /\ tasks[i].dependencies[j].source_task \notin TaskNames
    /\ tasks[i].dependencies[j].result_key \notin DOMAIN initial_context
    /\ \A t \in TaskIds : tasks[t].result_key # tasks[i].dependencies[j].result_key

\* C7: Crew.execute on a crew with a task whose dependency can never be
\* satisfied does not return a context normally (it aborts with a deadlock
\* error).
C7_DeadlockAborts ==
  (\E i \in TaskIds : NeverSatisfied(i)) => cpc # "returned"

-----------------------------------------------------------------------------
(* C8 *)

\* C8: when the node returns an error for the head task, execute_tasks raises
\* at once an error that names the task and carries the message of the node,
\* and nothing is dispatched afterwards: an error is the last entry of the
\* log, the failed task is still the head of the queue.
C8_ErrorAborts ==
  /\ \A n \in DOMAIN log :
       log[n].ev = "error" =>
         /\ n = Len(log)
         /\ mpc = "raised"
         /\ task_queue # <<>>
         /\ Head(task_queue) = log[n].task
         /\ error = [task |-> tasks[log[n].task].name, msg |-> log[n].msg]
  /\ mpc = "raised" => Failed # {}

\* a run aborted by an agent failure of a task with another task behind it
C8_Witness ==
  /\ mpc = "raised"
  /\ error.msg = "agent raised"
  /\ Len(task_queue) >= 2
  /\ Succeeded # {}

-----------------------------------------------------------------------------
(* C9 *)

\* C9: when execute_tasks aborts because a task failed, the result context
\* holds exactly the entries of the initial context, unaltered, and the
\* results of the tasks completed before; the failed task wrote nothing and
\* is, with every task not yet run, still in the queue.
C9_PartialResultsKept ==
  mpc = "raised" =>
    /\ \A k \in DOMAIN initial_context :
         k \in DOMAIN task_results /\ task_results[k] = initial_context[k]
    /\ \A i \in Succeeded : tasks[i].name \in DOMAIN task_results
    /\ DOMAIN task_results =
         (DOMAIN initial_context) \cup {tasks[i].name : i \in Succeeded}
    /\ Range(task_queue) = TaskIds \ Succeeded
    /\ Failed \subseteq Range(task_queue)

-----------------------------------------------------------------------------
(* C10 *)

\* C10: in Crew.execute, when the run of an agent fails, no later batch is
\* started and execute does not return a context normally.
C10_FailurePropagates ==
  [][/\ Failed # {} => ~StartBatch
     /\ Failed' # {} => cpc' # "returned"]_vars

-----------------------------------------------------------------------------
(* C11 *)

\* C11: when SwarmCrew.execute returns, the returned mapping holds, for every
\* task a node executed successfully that declares a result key, the result
\* of the task under that result key, and no such task is left in the queue.
C11_PublishedUnderKey ==
  mpc = "returned" =>
    \A i \in Succeeded :
      /\ i \notin Range(task_queue)
      /\ tasks[i].result_key # NoKey =>
           /\ tasks[i].result_key \in DOMAIN task_results
           /\ task_results[tasks[i].result_key] = RunResult(tasks[i].name, i)

-----------------------------------------------------------------------------
(* C12 *)

\* the number of positions of the sequence s that hold e
Count(s, e) == Cardinality({n \in DOMAIN s : s[n] = e})

\* C12: when Crew.execute returns after every task became ready and every
\* agent succeeded, the returned context holds every entry of the initial
\* context, holds under the result key of each task the value the agent of
\* that task returned, and completed_tasks holds every task name exactly once.
C12_CrewRunComplete ==
  (cpc = "returned" /\ Succeeded = TaskIds) =>
    /\ \A k \in DOMAIN initial_context :
         k \in DOMAIN context /\ context[k] = initial_context[k]
    /\ \A i \in TaskIds :
         tasks[i].result_key # NoKey =>
           /\ tasks[i].result_key \in DOMAIN context
           /\ context[tasks[i].result_key] = RunResult(tasks[i].name, i)
    /\ \A n \in TaskNames : Count(completed_tasks, n) = 1

-----------------------------------------------------------------------------
(* C16 *)

\* C16: a node is idle with no current task whenever no execute_task call is
\* in progress on it, and busy, with the executing task as its current task,
\* for the whole of an execute_task call.
C16_BusyWhileExecuting ==
  \A n \in DOMAIN nodes :
    IF mpc = "executing" /\ dispatch.node = n
      THEN /\ nodes[n].status = "busy"
           /\ nodes[n].current_task = tasks[dispatch.task].name
      ELSE /\ nodes[n].status = "idle"
           /\ nodes[n].current_task = NoKey

-----------------------------------------------------------------------------
(* C18 *)

\* C18: the context execute_tasks hands to the node for a task maps the key
\* of each dependency of the task to the recorded result of its source,
\* carries every entry of the initial context with its initial value, and
\* building it leaves the result context of the manager as it was.
C18_DispatchContext ==
  [][Dispatch =>
       LET task == tasks[dispatch'.task]
       IN  /\ \A j \in DOMAIN task.dependencies :
                /\ task.dependencies[j].result_key \in DOMAIN dispatch'.context
                /\ dispatch'.context[task.dependencies[j].result_key] =
                     task_results[task.dependencies[j].source_task]
           /\ \A k \in DOMAIN initial_context :
                /\ k \in DOMAIN dispatch'.context
                /\ dispatch'.context[k] = initial_context[k]
           /\ task_results' = task_results]_vars

-----------------------------------------------------------------------------
(* C13 *)

\* the context holds the result key of every dependency of the task and
\* every placeholder of its template
Contained(task, ctx) ==
  /\ \A j \in DOMAIN task.dependencies : task.dependencies[j].result_key \in DOMAIN ctx
  /\ \A j \in DOMAIN task.required_vars : task.required_vars[j] \in DOMAIN ctx

\* C13: Task.is_ready(C) is true if and only if C contains the result key of
\* every dependency of the task and every placeholder of its template, for
\* every context C, those that map a key to None included.
C13_ReadyIffContained ==
  (call.op = "is_ready" /\ call.state = "returned") =>
    (call.result <=> Contained(tasks[1], initial_context))

-----------------------------------------------------------------------------
(* C14 *)

\* C14: Task.execute on a context against which the task is ready (the
\* context contains its dependency keys and placeholders), with an agent that
\* returns, calls the agent once with the template rendered from that
\* context, stores the returned value as the result of the task, writes it
\* into the context under the result key if one is declared and writes
\* nothing otherwise, and marks the task completed.
C14_ExecuteReady ==
  ( /\ call.op = "execute"
    /\ Contained(tasks[1], initial_context)
    /\ runner[1] \in {"executed", "failed"}
    /\ Events("error", 1) = {} ) =>
    /\ runner[1] = "executed"
    /\ log = <<Event("start", 1, Render(tasks[1], initial_context), ""),
               Event("ok", 1, <<>>, "")>>
    /\ task_result[1] = RunResult(tasks[1].name, 1)
    /\ task_completed[1]
    /\ context = IF tasks[1].result_key # NoKey
                   THEN Put(initial_context, tasks[1].result_key, task_result[1])
                   ELSE initial_context

-----------------------------------------------------------------------------
(* C15 *)

\* C15: SwarmNode.execute_task returns (it never raises) exactly one of: an
\* error for an agent the node does not have, without an agent call; an error
\* for placeholders missing from the context, without an agent call; an error
\* carrying the failure of the agent; a success carrying what the agent
\* returned.  The agent is called at most once, with the template rendered
\* from the context, the dependencies of the task play no part, and neither
\* the context nor the node is changed.
C15_NodeResult ==
  (call.op = "execute_task" /\ call.state = "returned") =>
    LET task == tasks[1]
        result == call.result
        missing_vars == {j \in DOMAIN task.required_vars :
                           task.required_vars[j] \notin DOMAIN initial_context}
        prompts == {log[n].prompt : n \in Events("start", 1)}
    IN  /\ Cardinality(Events("start", 1)) <= 1
        /\ context = initial_context
        /\ nodes[1].status = "idle"
        /\ IF task.agent \notin nodes[1].available_agents
             THEN /\ result.status = "error"
                  /\ result.error = "agent not found"
                  /\ Events("start", 1) = {}
           ELSE IF missing_vars # {}
             THEN /\ result.status = "error"
                  /\ result.error = "missing variables"
                  /\ Events("start", 1) = {}
           ELSE /\ prompts = {Render(task, initial_context)}
                /\ \/ /\ result.status = "success"
                      /\ result.result = RunResult(task.name, 1)
                      /\ Events("ok", 1) # {}
                   \/ /\ result.status = "error"
                      /\ result.error = "agent raised"
                      /\ Events("error", 1) # {}

\* a node has executed, with success, a task whose dependency is not in the
\* context it was given
C15_Witness ==
  /\ call.op = "execute_task"
  /\ call.state = "returned"
  /\ call.result.status = "success"
  /\ tasks[1].dependencies # <<>>
  /\ ~Contained(tasks[1], initial_context)

-----------------------------------------------------------------------------
(* C17 *)

\* the node registered under an id
NodeOf(node_id) == nodes[CHOOSE n \in DOMAIN nodes : nodes[n].node_id = node_id]

\* the positions of the sequence of ids order whose node is idle and has the
\* agent of the task
Eligible(order, task) ==
  {p \in DOMAIN order :
     /\ NodeOf(order[p]).status = "idle"
     /\ task.agent \in NodeOf(order[p]).available_agents}

\* the node get_available_node is to return when the nodes are taken in the
\* order of ids order: the first eligible one, None when there is none
FirstEligible(order, task) ==
  IF Eligible(order, task) = {}
    THEN NoneVal
    ELSE NodeOf(order[CHOOSE p \in Eligible(order, task) :
                        \A q \in Eligible(order, task) : p <= q])

\* C17 as stated: after any sequence of register_node and unregister_node
\* calls, get_available_node returns the earliest-registered node among the
\* idle nodes that have the agent of the task, and None when there is none.
C17_EarliestRegistered ==
  (call.op = "get_available_node" /\ call.state = "returned") =>
    call.result = FirstEligible(registered, call.arg)

\* C17, amended: get_available_node returns, among the idle nodes that have
\* the agent of the task, the node whose id entered the registry first (a
\* node registered under an id that is already registered takes the place of
\* the node it replaces), and None when there is none; it never returns a
\* node that is not idle or lacks the agent.
C17_FirstAdmitted ==
  (call.op = "get_available_node" /\ call.state = "returned") =>
    /\ call.result = FirstEligible(admitted, call.arg)
    /\ call.result # NoneVal =>
         /\ call.result \in Range(nodes)
         /\ call.result.status = "idle"
         /\ call.arg.agent \in call.result.available_agents

\* two idle nodes have the agent asked for, behind a busy one or after one of
\* them was replaced under its id, and the call returned a node
C17_Witness ==
  /\ call.op = "get_available_node"
  /\ call.state = "returned"
  /\ call.result # NoneVal
  /\ Cardinality(Eligible(admitted, call.arg)) = 2
  /\ registered # admitted

-----------------------------------------------------------------------------
(* C19 *)

\* a SwarmCrew with agent Lw, the local node, a node n1 added with agent Rw,
\* a first task for Lw and a second task for Rw
TwoNodeCrew ==
  /\ agents = {"Lw"}
  /\ nodes = <<SwarmNode("local", {"Lw"}), SwarmNode("n1", {"Rw"})>>
  /\ Len(tasks) = 2
  /\ tasks[1].agent = "Lw"
  /\ tasks[2].agent = "Rw"

\* the entries of the transport history for the operation method
CallsOf(method) == {n \in DOMAIN grpc_calls : grpc_calls[n].method = method}

\* C19: when the run of such a crew has returned, the first task was handed
\* to the local node, the second to the added node, and the transport
\* history holds exactly one ExecuteTask call, whose request names agent Rw
\* and whose response has status success.
C19_RemoteThroughTransport ==
  (TwoNodeCrew /\ mpc = "returned") =>
    /\ \A n \in Events("dispatch", 1) : log[n].msg = "local"
    /\ \A n \in Events("dispatch", 2) : log[n].msg = "n1"
    /\ Cardinality(CallsOf("ExecuteTask")) = 1
    /\ \A n \in CallsOf("ExecuteTask") :
         /\ grpc_calls[n].request.agent_name = "Rw"
         /\ grpc_calls[n].response.status = "success"

-----------------------------------------------------------------------------
(* C20 *)

\* C20: the ExecuteTask handler, for a request that names an agent of its
\* node, ends with a reply (never with an exception), after one call of the
\* execute_task of the node, and the reply carries the status, result and
\* error of the result of the node.
C20_HandlerMirrorsNode ==
  ( /\ call.op = "ExecuteTask"
    /\ call.arg.agent_name \in nodes[1].available_agents
    /\ call.state \in {"raised", "replied"} ) =>
    /\ call.state = "replied"
    /\ call.result.status \in {"success", "error"}
    /\ call.result.status = "success" =>
         Cardinality({n \in DOMAIN log : log[n].ev = "start"}) = 1

-----------------------------------------------------------------------------
(* C21 *)

\* C21: the ExecuteTask handler, for a request that names an agent its node
\* does not have, ends with a reply of status error as a normal response
\* (never with an exception), and the node is left as it was.
C21_UnknownAgentReply ==
  ( /\ call.op = "ExecuteTask"
    /\ call.arg.agent_name \notin nodes[1].available_agents
    /\ call.state \in {"raised", "replied"} ) =>
    /\ call.state = "replied"
    /\ call.result.status = "error"
    /\ nodes[1].status = "idle"
    /\ nodes[1].current_task = NoKey

-----------------------------------------------------------------------------
(* C28 *)

\* the worker thread of task i tests the readiness of its task on the shared
\* context
TestsContext(i) == RunnerCheck(i) \/ ExecuteBegin(i)

\* the worker thread of task i publishes the result of its task into the
\* shared context
WritesContext(i) == ExecuteEnd(i) /\ tasks[i].result_key # NoKey

\* C28: in a run of Crew.execute, a worker thread tests readiness on the
\* shared context and publishes a result into it only while it holds the
\* lock of the crew, and no thread writes the context while another thread
\* is inside a locked section reading it.
C28_ContextUnderLock ==
  [][\A i \in TaskIds :
       /\ (TestsContext(i) \/ WritesContext(i)) => lock = i
       /\ WritesContext(i) => lock \in {0, i}]_vars

-----------------------------------------------------------------------------
(* C29 *)

\* the tasks whose worker thread has been started and is not over
Running == {i \in TaskIds : ~ThreadOver(i)}

\* C29: Crew.execute selects and starts the tasks of a batch, finds that no
\* task is ready, or returns to its caller, only when no worker thread of an
\* earlier batch is running, also after a task of that batch has failed.
C29_BatchAwaited ==
  [][(StartBatch \/ NoBatch \/ CrewReturn) => Running = {}]_vars

\* a run has returned in which a task failed while the thread of another
\* task of its batch was running, and that thread went on to the end
C29_Witness ==
  /\ cpc = "returned"
  /\ \E n, m \in DOMAIN log :
       /\ n < m
       /\ log[n].ev = "error"
       /\ log[m].ev = "ok"
       /\ \E k \in Events("start", log[m].task) : k < n
  /\ completed_tasks # <<>>

-----------------------------------------------------------------------------
(* C30 *)

\* a run of Crew.execute or of SwarmManager.execute_tasks is over
RunOver == cpc = "returned" \/ mpc \in {"returned", "raised"}

\* the task names the scheduler has recorded as completed: completed_tasks of
\* the crew, the keys of the result context of the manager
CompletedNames ==
  IF mpc = "none" THEN Range(completed_tasks) ELSE DOMAIN task_results

\* the names of the tasks whose execution surfaced as failed
FailedNames == {tasks[i].name : i \in Failed}

\* the names of the tasks not yet reached: still remaining or queued, and
\* never handed to a thread or a node
NotReachedNames ==
  {tasks[i].name : i \in {t \in Range(remaining_tasks) \cup Range(task_queue) :
                            Events("start", t) \cup Events("error", t) = {}}}

\* C30: at the end of every run of Crew.execute and of execute_tasks, each
\* task name passed to the scheduler is in exactly one of the three sets
\* completed, failed and not yet reached.
C30_ThreeSets ==
  RunOver =>
    \A n \in TaskNames :
      /\ n \in CompletedNames \cup FailedNames \cup NotReachedNames
      /\ ~(n \in CompletedNames /\ n \in FailedNames)
      /\ ~(n \in CompletedNames /\ n \in NotReachedNames)
      /\ ~(n \in FailedNames /\ n \in NotReachedNames)

(* C27 *)
\* After any sequence of add_agent, add_task and add_shared_context calls the
\* builder holds, collection by collection, what the calls supplied: under
\* each agent name the last agent added, the tasks in the order added, under
\* each context key the last value added, and nothing an add for another
\* collection brought; build returns a crew with exactly these agents, tasks
\* and context.
C27_BuildReturnsAdded ==
  /\ builder = added
  /\ call.op = "build" =>
        /\ call.result.agents = added.agents
        /\ call.result.tasks = added.tasks
        /\ call.result.context = added.shared_context

\* a crew built after two tasks, a value replaced by None under "x", and an
\* agent stored under another agent's name
C27_Witness ==
  /\ call.op = "build"
  /\ Len(call.result.tasks) >= 2
  /\ "Lw" \in DOMAIN call.result.agents
  /\ call.result.agents["Lw"] = Agent("Rw")
  /\ "x" \in DOMAIN call.result.context
  /\ call.result.context["x"] = NoneVal

\* the names of the tasks a task named n of the list ts declares as sources
DeclaredSources(ts, n) ==
  UNION {{ts[i].dependencies[k].source_task : k \in DOMAIN ts[i].dependencies} :
           i \in Named(ts, n)}

RECURSIVE SourcesWithin(_, _, _)

\* the names reached from the names S along at most k further dependencies
SourcesWithin(ts, S, k) ==
  IF k = 0 THEN S
  ELSE SourcesWithin(ts, S \cup UNION {DeclaredSources(ts, n) : n \in S}, k - 1)

\* some task of ts is reached from its own sources (a task that names
\* itself as a source included)
HasCycle(ts) ==
  \E i \in DOMAIN ts :
    ts[i].name \in SourcesWithin(ts, DeclaredSources(ts, ts[i].name), Len(ts))

\* every dependency of ts names a task of ts
SourcesPresent(ts) ==
  \A i \in DOMAIN ts : \A k \in DOMAIN ts[i].dependencies :
    Named(ts, ts[i].dependencies[k].source_task) # {}

\* every dependency of ts reads the result key its source task declares
KeysMatch(ts) ==
  \A i \in DOMAIN ts : \A k \in DOMAIN ts[i].dependencies :
    \A j \in Named(ts, ts[i].dependencies[k].source_task) :
      /\ ts[j].result_key # NoKey
      /\ ts[i].dependencies[k].result_key = ts[j].result_key

\* the tasks of b whose agent is not in the registry of b
Unstaffed(b) == {i \in DOMAIN b.tasks : b.tasks[i].agent \notin DOMAIN b.agents}

(* C22 *)
\* validate_crew returns the builder without raising if and only if the
\* dependency graph over the builder's tasks has no cycle, every dependency
\* names a task of the builder and reads the result key its source declares,
\* and every task's agent is in the builder's agents.
C22_AcceptsIffValid ==
  call.op = "validate_crew" =>
    (call.state = "returned" <=>
       /\ ~HasCycle(builder.tasks)
       /\ SourcesPresent(builder.tasks)
       /\ KeysMatch(builder.tasks)
       /\ Unstaffed(builder) = {})

(* C23 *)
\* validate_crew raises the ValueError 'Circular dependency detected' for
\* every task list whose dependency graph has a cycle, in whatever order the
\* tasks were added, and raises it for no acyclic one.
C23_CycleReported ==
  call.op = "validate_crew" =>
    (HasCycle(builder.tasks) <=>
       /\ call.state = "raised"
       /\ call.result.exception = "ValueError"
       /\ call.result.error = "Circular dependency detected")

(* C24 *)
\* When the dependencies of a builder are in order (no cycle, every source
\* present) and some task's agent is not among the builder's agents,
\* validate_crew raises the ValueError 'Missing agent' naming such a task.
C24_MissingAgentReported ==
  (/\ call.op = "validate_crew"
   /\ ~HasCycle(builder.tasks)
   /\ SourcesPresent(builder.tasks)
   /\ Unstaffed(builder) # {}) =>
    /\ call.state = "raised"
    /\ call.result.exception = "ValueError"
    /\ call.result.error = "Missing agent"
    /\ \E i \in Unstaffed(builder) : call.result.task = builder.tasks[i].name

(* C25 *)
\* When a builder has every task's agent, no cycle, and some task declares a
\* dependency whose source is the name of no task added, validate_crew raises
\* the ValueError "Dependency task ... not found".
C25_MissingSourceReported ==
  (/\ call.op = "validate_crew"
   /\ ~HasCycle(builder.tasks)
   /\ Unstaffed(builder) = {}
   /\ ~SourcesPresent(builder.tasks)) =>
    /\ call.state = "raised"
    /\ call.result.exception = "ValueError"
    /\ call.result.error = "Dependency task not found"

(* C26 *)
\* After add_task_chain(chain), with added the builder as it was before the
\* call: every task of the chain but the first has gained exactly one
\* dependency, on the name and the result key of the task before it; the
\* first has gained none; the builder's tasks are those it had, followed by
\* the chain in its order.
C26_ChainLinked ==
  call.op = "add_task_chain" =>
    /\ Len(call.result.result) = Len(call.arg)
    /\ \A i \in DOMAIN call.arg :
         call.result.result[i].dependencies =
           IF i = 1 THEN call.arg[i].dependencies
           ELSE call.arg[i].dependencies \o
                  <<TaskDependency(call.arg[i - 1].name, call.arg[i - 1].result_key)>>
    /\ builder.tasks = added.tasks \o call.arg

(* C31 *)

RECURSIVE RunInTurn(_, _, _)

\* the threads of one batch run one after the other, each to its end, in the
\* order they were started: r holds the context and completed_tasks so far
RunInTurn(batch, k, r) ==
  IF k > Len(batch) THEN r
  ELSE LET i == batch[k]
           key == tasks[i].result_key
       IN IF ~is_ready(tasks[i], r.context) THEN RunInTurn(batch, k + 1, r)
          ELSE RunInTurn(batch, k + 1,
                 [context |-> IF key # NoKey
                                THEN Put(r.context, key, RunResult(tasks[i].name, i))
                                ELSE r.context,
                  completed_tasks |-> Append(r.completed_tasks, tasks[i].name)])

RECURSIVE RunBatches(_, _)

\* Crew.execute under that schedule, with agents that all return
RunBatches(rem, r) ==
  LET batch == ReadyOf(rem, r.context)
  IN IF batch = <<>> THEN r
     ELSE RunBatches(SelectSeq(rem, LAMBDA i : i \notin Range(batch)),
                     RunInTurn(batch, 1, r))

\* what the run of the crew yields when the threads of a batch take turns
InTurn ==
  RunBatches([i \in TaskIds |-> i],
             [context |-> initial_context, completed_tasks |-> <<>>])

\* no agent of the run has raised
NoAgentRaised == \A n \in DOMAIN log : log[n].ev # "error"

\* C31: with agents that return the same result for the same task in every
\* run, every run of Crew.execute on the same tasks and initial context ends
\* with the same completed_tasks and the same context, however the threads of
\* a batch interleave: with those of the run where they take turns.
C31_SameOutcome ==
  (cpc = "returned" /\ NoAgentRaised) =>
    /\ completed_tasks = InTurn.completed_tasks
    /\ context = InTurn.context


(* C32 *)

\* the only task of the run has no dependency and a placeholder that the
\* initial context does not hold
LoneTaskLacksVariable ==
  /\ Len(tasks) = 1
  /\ tasks[1].dependencies = <<>>
  /\ \E j \in DOMAIN tasks[1].required_vars :
       tasks[1].required_vars[j] \notin DOMAIN initial_context

\* C32: when a task whose template has a placeholder absent from the context
\* is executed, the run aborts with a missing-variable error for that task,
\* and the agent of the task is not run.
C32_MissingVariableAborts ==
  (RunOver /\ LoneTaskLacksVariable) =>
    /\ error # <<>>
    /\ error.task = tasks[1].name
    /\ error.msg = "missing variables"
    /\ Events("start", 1) = {}


(* C34 *)

\* a step of Crew.execute or of a worker thread as it is made without an
\* evaluator (evaluate=False)
UnobservedStep ==
  \/ CopyTasks
  \/ TakeBatch
  \/ Deadlock
  \/ \E i \in TaskIds : RunnerAcquire(i)
  \/ \E i \in TaskIds : RunnerCheck(i)
  \/ \E i \in TaskIds : ExecuteBegin(i)
  \/ \E i \in TaskIds : ExecuteEnd(i)
  \/ \E i \in TaskIds : ExecuteRaise(i)
  \/ \E i \in TaskIds : AppendCompleted(i)
  \/ JoinBatch
  \/ LoopOver

\* C34: a run of Crew.execute with evaluate=True selects the batches, starts
\* the tasks and changes the context and completed_tasks as a run with
\* evaluate=False on the same inputs does: every step of a run with an
\* evaluator is, on everything but the evaluator, a step that the run without
\* one can make, and whenever the run without one can select a batch, find
\* none, record a completed task or return, so can the run with the evaluator.
C34_EvaluatorObserves ==
  /\ [][(evaluator # NoneVal \/ evaluator' # NoneVal) => UnobservedStep]_vars
  /\ [](evaluator # NoneVal =>
          /\ ENABLED TakeBatch => ENABLED StartBatch
          /\ ENABLED Deadlock => ENABLED NoBatch
          /\ ENABLED LoopOver => ENABLED CrewReturn
          /\ \A i \in TaskIds : ENABLED AppendCompleted(i) => ENABLED RunnerRecord(i))

\* the end of an evaluated run that completed two tasks, both with their
\* start and end recorded
C34_Witness ==
  /\ cpc = "returned"
  /\ evaluator # NoneVal
  /\ Len(completed_tasks) >= 2
  /\ \A n \in Range(completed_tasks) :
       n \in DOMAIN evaluator.task_stats /\ evaluator.task_stats[n].end_time # NoTime


(* C33 *)

\* the tasks the returned dict lists in the group of task a
GroupOf(a) == IF a \in DOMAIN call.result THEN call.result[a] ELSE {}

\* both tasks have a recorded end and their intervals [start, end] overlap
Overlap(a, b) ==
  LET sa == evaluator.task_stats[a]
      sb == evaluator.task_stats[b]
  IN  /\ sa.end_time # NoTime
      /\ sb.end_time # NoTime
      /\ sa.start_time <= sb.end_time
      /\ sb.start_time <= sa.end_time

\* C33: get_parallel_execution_stats lists task b in the group of task a
\* exactly when both have recorded end times and their intervals overlap (so
\* b is in the group of a if and only if a is in the group of b).
C33_GroupsAreOverlaps ==
  (call.op = "get_parallel_execution_stats" /\ call.state = "returned") =>
    \A a, b \in DOMAIN evaluator.task_stats :
      a # b => (b \in GroupOf(a) <=> Overlap(a, b))


(* C35 *)

\* execute_tasks is at the head of its loop with a head task whose
\* dependencies are met and for which get_available_node finds no node
NoNodeForHead ==
  /\ mpc = "loop"
  /\ task_queue # <<>>
  /\ dependencies_met(tasks[Head(task_queue)])
  /\ get_available_node(tasks[Head(task_queue)]) = 0

\* C35: when the dependencies of the head task are met and no eligible node
\* exists, the iteration leaves the queue (contents and order), the result
\* context and the node registry as they are, and execute_tasks is again at
\* the head of its loop with the same task; the task is not rotated.
C35_WaitKeepsQueue ==
  [][NoNodeForHead =>
       /\ task_queue' = task_queue
       /\ task_results' = task_results
       /\ nodes' = nodes
       /\ NoNodeForHead']_vars

\* execute_tasks waits for a node with two tasks or more in the queue
C35_Witness ==
  /\ NoNodeForHead
  /\ Len(task_queue) >= 2
  /\ tasks[task_queue[1]] # tasks[task_queue[2]]


(* C36 *)

\* C36: when task.execute(context) raises, because the task is not ready
\* against the context or because the agent's run fails, the context is as it
\* was passed, the stored result of the task is not set and the task is not
\* marked completed; when the task was not ready the agent was not run.
C36_RaiseLeavesNoTrace ==
  (call.op = "execute" /\ runner[1] = "failed") =>
    /\ context = initial_context
    /\ task_result[1] = NoneVal
    /\ ~task_completed[1]
    /\ writes = [k \in ContextKeys |-> 0]
    /\ ~is_ready(tasks[1], initial_context) => Events("start", 1) = {}

\* task.execute has raised because the agent's run failed, on a task that
\* has a result key
C36_Witness ==
  /\ call.op = "execute"
  /\ runner[1] = "failed"
  /\ Events("error", 1) # {}
  /\ tasks[1].result_key # NoKey


(* C39 *)

\* the tasks have been added to the manager (SwarmCrew.execute has queued them)
TasksAdded == mpc \in {"loop", "executing", "returned", "raised"}

\* C39: at every point of a SwarmCrew run from the moment the tasks are
\* added, the pending_tasks and completed_tasks counts of get_system_status
\* add up to the number of tasks added, and completed_tasks is the number of
\* tasks that have finished successfully.
C39_StatusCounts ==
  TasksAdded =>
    /\ get_system_status.pending_tasks + get_system_status.completed_tasks = Len(tasks)
    /\ get_system_status.completed_tasks = Cardinality(Succeeded)


(* C40 *)

\* C40: no step of SwarmCrew.execute, SwarmManager.execute_tasks or
\* SwarmNode.execute_task changes a task's declaration, stored result or
\* completed flag; only the end of Task.execute, on the path of Crew.execute,
\* sets a stored result and a completed flag.
C40_OnlyExecuteSetsTask ==
  [][/\ tasks' = tasks
     /\ (task_result' # task_result \/ task_completed' # task_completed) =>
          \E i \in TaskIds : ExecuteEnd(i)
     /\ mpc # "none" => task_result' = task_result /\ task_completed' = task_completed]_vars

\* a SwarmCrew run has returned with two tasks executed successfully
C40_Witness ==
  /\ mpc = "returned"
  /\ Cardinality(Succeeded) >= 2
  /\ \A i \in TaskIds : task_result[i] = NoneVal /\ ~task_completed[i]


(* C38 *)

\* the agent tables of the nodes other than "local", by node id
OtherTables(ns) ==
  {<<ns[n].node_id, ns[n].available_agents>> : n \in {m \in DOMAIN ns : ns[m].node_id # "local"}}

\* C38: removing an agent from the table of the local node
\* (force_remote_execution) leaves the agent dictionary of the crew and the
\* agent table of every other node unchanged.
C38_LocalTableOwned ==
  [][(\E agent_name \in AgentNames : ForceRemoteExecution(agent_name)) =>
       /\ agents' = agents
       /\ OtherTables(nodes') = OtherTables(nodes)]_vars


(* C37 *)

\* the names of the tasks of ts that are on a dependency cycle
OnCycle(ts) ==
  {ts[i].name : i \in {j \in DOMAIN ts :
     ts[j].name \in SourcesWithin(ts, DeclaredSources(ts, ts[j].name), Len(ts))}}

\* C37: when validate_crew reports a circular dependency, the task named in
\* the error is itself on a dependency cycle.
C37_ReportedTaskOnCycle ==
  (/\ call.op = "validate_crew"
   /\ call.state = "raised"
   /\ call.result.error = "Circular dependency detected") =>
    call.result.task \in OnCycle(builder.tasks)

====
